---- MODULE Spec2Model ----
(***************************************************************************)
(* A model of src/main.py, the PCL discord bot: one invocation of          *)
(* command_function (commands rand, rq, fq) running get_issues,            *)
(* github_ratelimiter, get_pr_details, pr_with_pending_review and the      *)
(* choose_* strategies against a GitHub server whose answers are inputs.   *)
(***************************************************************************)
EXTENDS Integers, Sequences, FiniteSets, TLC

(***************************************************************************)
(* Bounds of the model.                                                    *)
(***************************************************************************)
\* The server never holds more than MaxItems search results in all.
MaxItems == 2
\* The largest number of items in one page (per_page=100 in the code).
PageSize == 1
\* The largest total_count a response reports.
MaxTotal == 2
\* Pages 1..MaxPage are told apart; MaxPage + 1 stands for every later page.
MaxPage == 2
\* The longest requested_reviewers list of a pull request.
MaxReviewers == 2

(***************************************************************************)
(* Inputs.                                                                 *)
(***************************************************************************)
Names == {"rand", "rq", "fq"}
\* The second command argument; "None" is the absent argument.
Nouns == {"None", "issue", "pr", "all"}
\* The requested count as typed by the user.
Counts == {0, 1, 2, 11}
\* datetime.now(), in epoch seconds.
Nows == {100}
\* The X-RateLimit-Remaining and X-RateLimit-Reset headers of a response: with
\* one request remaining, resets that make sleep_time -1, 0, 6, 61 and 62; with
\* none or two remaining, resets that make it 6 and 62.
Headers ==
    {[remaining |-> 1, reset |-> rs] : rs \in {98, 99, 105, 160, 161}}
    \cup {[remaining |-> rem, reset |-> rs] : rem \in {0, 2}, rs \in {105, 161}}
\* Logins that appear in requested_reviewers; "me" is the command's author.
Logins == {"me", "other"}

VARIABLES
    name,              \* the command: rand, rq or fq
    noun,              \* the second argument of the command
    number_of_issues,  \* the requested count, corrected by the checks
    pull_request,      \* the kind the search asks for
    author,            \* the identity rq filters for, or "None"
    pc,                \* where the invocation stands
    exc,               \* the exception that ended the invocation, or "None"
    page,              \* get_issues: page
    data_count,        \* get_issues: data_count
    total_count,       \* get_issues: total_count of the last response, -1 before
    pending,           \* get_issues: items of the current page not yet yielded
    hdr,               \* response.headers of the response being handled
    issues,            \* command_function: the materialized list
    fetchEnd,          \* how get_issues ended
    idx,               \* get_pr_details: how many input items the for loop took
    counter,           \* get_pr_details: counter
    details,           \* the pr_data yielded by get_pr_details, in order
    chosen_issues,     \* choose_*: chosen_issues
    detailEnd,         \* how get_pr_details ended
    net,               \* requests and responses in flight
    reports,           \* what error_handler's handler sent to the channel
    sleeping,          \* the delay of the asyncio.sleep in progress, 0 when none
    now,               \* the clock datetime.now() reads
    reply,             \* the embed handed to channel.send
    served,            \* server: how many search items it has returned
    detailReqs,        \* items whose detail was requested, in order
    detailRl,          \* github_ratelimiter calls get_pr_details has seen return
    gaveUp,            \* github_ratelimiter has returned its give-up value
    asked,             \* the pages get_issues has requested
    label,             \* get_issues: one label of include_labels or exclude_labels
    excluded,          \* whether the label is one of exclude_labels
    term,              \* the term get_issues renders for the label
    read,              \* what the search endpoint reads in the term
    quota,             \* the server's rate limit: limit, window, remaining, reset
    phase,             \* two invocations: each alone first, then both interleaved
    running,           \* two invocations: the one the event loop is running
    other,             \* two invocations: the frame of the suspended one
    trace,             \* two invocations: the answers each got when it ran alone
    visited            \* two invocations: the states each went through alone

fetchVars == <<page, data_count, total_count, pending, hdr, issues, fetchEnd>>
detailVars == <<idx, counter, details, chosen_issues, detailEnd>>
argVars == <<name, noun, number_of_issues, pull_request, author>>
histVars == <<served, detailReqs, detailRl, gaveUp, asked>>
cmdVars == <<argVars, pc, exc, fetchVars, detailVars, net, reports, sleeping, now, reply, histVars>>
encodeVars == <<label, excluded, term, read>>
pairVars == <<phase, running, other, trace, visited>>
sideVars == <<encodeVars, quota, pairVars>>
vars == <<cmdVars, sideVars>>

Min(a, b) == IF a < b THEN a ELSE b

NoHdr == [remaining |-> -1, reset |-> -1]
NoReply == [sent |-> FALSE, items |-> <<>>, footer |-> FALSE]

(***************************************************************************)
(* Messages between the invocation and the server.                         *)
(***************************************************************************)
Blank == [dir |-> "", kind |-> "", arg |-> 0, status |-> "", total |-> 0,
          items |-> <<>>, headers |-> NoHdr, revs |-> <<>>]
Req(kind, arg) == [Blank EXCEPT !.dir = "req", !.kind = kind, !.arg = arg]
Failure(m, status) == [Blank EXCEPT !.dir = "resp", !.kind = m.kind, !.arg = m.arg,
                                    !.status = status]
SearchResp(m, total, items, h) ==
    [Blank EXCEPT !.dir = "resp", !.kind = "search", !.arg = m.arg, !.status = "ok",
                  !.total = total, !.items = items, !.headers = h]
DetailResp(m, revs, h) ==
    [Blank EXCEPT !.dir = "resp", !.kind = "detail", !.arg = m.arg, !.status = "ok",
                  !.revs = revs, !.headers = h]
Responses(kind) == {m \in net : m.dir = "resp" /\ m.kind = kind}

\* Every requested_reviewers list of at most MaxReviewers logins.
ReviewerLists == UNION {[1..n -> Logins] : n \in 0..MaxReviewers}

(***************************************************************************)
(* The reporting callbacks.  "handler" is the closure error_handler        *)
(* returns, which sends to the channel; "default_error_handler" is the     *)
(* coroutine function that sends nothing; "lambda" is the default of       *)
(* get_pr_details, which returns True, a value await rejects with a        *)
(* TypeError.                                                              *)
(***************************************************************************)
Awaitable(error_channel) == error_channel # "lambda"
Sent(error_channel, what) == IF error_channel = "handler" THEN <<what>> ELSE <<>>

(***************************************************************************)
(* github_ratelimiter                                                      *)
(***************************************************************************)
MaxWait == 61
SleepTime(reset, t) == (reset - t) + 1
\* asyncio.sleep(d) suspends for d seconds when d > 0 and not at all otherwise.
AsyncioSleep(d) == IF d > 0 THEN d ELSE 0
\* What one call does: what it sends to the channel, whether the await of the
\* callback raises, how long it sleeps, and the value it returns.
\* (github_ratelimiter_AtMostOne is the function with <= 1 for == 1 at line 67.)
github_ratelimiter_AtMostOne(headers, error_channel, t) ==
    IF headers.remaining <= 1
    THEN LET sleep_time == SleepTime(headers.reset, t) IN
         IF sleep_time > MaxWait
         THEN [sent |-> Sent(error_channel, "giveup"),
               raised |-> ~Awaitable(error_channel),
               sleep |-> 0,
               ret |-> IF Awaitable(error_channel) THEN sleep_time ELSE 0]
         ELSE [sent |-> <<>>, raised |-> FALSE,
               sleep |-> AsyncioSleep(sleep_time), ret |-> 0]
    ELSE [sent |-> <<>>, raised |-> FALSE, sleep |-> 0, ret |-> 0]
github_ratelimiter(headers, error_channel, t) ==
    IF headers.remaining = 1
    THEN LET sleep_time == SleepTime(headers.reset, t) IN
         IF sleep_time > MaxWait
         THEN [sent |-> Sent(error_channel, "giveup"),
               raised |-> ~Awaitable(error_channel),
               sleep |-> 0,
               ret |-> IF Awaitable(error_channel) THEN sleep_time ELSE 0]
         ELSE [sent |-> <<>>, raised |-> FALSE,
               sleep |-> AsyncioSleep(sleep_time), ret |-> 0]
    ELSE [sent |-> <<>>, raised |-> FALSE, sleep |-> 0, ret |-> 0]

(***************************************************************************)
(* The argument checks of command_function.                                *)
(***************************************************************************)
DefaultCount == 10
\* (check_number_of_issues_NoCurb is the function without its second test,
\* lines 225-229.)
check_number_of_issues_NoCurb(n) ==
    LET low == n < 1
    IN [value |-> IF low THEN DefaultCount ELSE n,
        sent |-> IF low THEN <<"unnatural">> ELSE <<>>]
check_number_of_issues(n) ==
    LET low == n < 1
        n1 == IF low THEN DefaultCount ELSE n
        high == n1 > 10
    IN [value |-> IF high THEN DefaultCount ELSE n1,
        sent |-> (IF low THEN <<"unnatural">> ELSE <<>>)
                 \o (IF high THEN <<"curb">> ELSE <<>>)]
check_pull_request(x) ==
    IF x = "issue" THEN [value |-> FALSE, sent |-> <<>>]
    ELSE IF x = "pr" THEN [value |-> TRUE, sent |-> <<>>]
    ELSE [value |-> FALSE, sent |-> <<"defaulting">>]
check_author(x) ==
    [value |-> IF x # "all" THEN "me" ELSE "None",
     sent |-> IF x = "issue" THEN <<"no_issue_review">> ELSE <<>>]

\* The state before get_issues has rendered a label.
NoRead == [qualifier |-> "", label |-> <<>>, rest |-> <<>>]
InitEncode ==
    /\ label = <<>>
    /\ excluded = FALSE
    /\ term = <<>>
    /\ read = NoRead

InitCommand ==
    /\ name \in Names
    /\ noun \in Nouns
    /\ number_of_issues \in Counts
    /\ pull_request = FALSE
    /\ author = "None"
    /\ pc = "check"
    /\ exc = "None"
    /\ page = 1
    /\ data_count = 0
    /\ total_count = -1
    /\ pending = <<>>
    /\ hdr = NoHdr
    /\ issues = <<>>
    /\ fetchEnd = "none"
    /\ idx = 0
    /\ counter = 0
    /\ details = <<>>
    /\ chosen_issues = <<>>
    /\ detailEnd = "none"
    /\ net = {}
    /\ reports = <<>>
    /\ sleeping = 0
    /\ now \in Nows
    /\ reply = NoReply
    /\ served = 0
    /\ detailReqs = <<>>
    /\ detailRl = 0
    /\ gaveUp = FALSE
    /\ asked = {}

\* A server that keeps no rate limit of its own: its headers are inputs.
NoQuota == [limit |-> 0, window |-> 0, remaining |-> 0, reset |-> 0]
InitQuota == quota = NoQuota

\* One invocation only: nothing is suspended.
NoContext == [pc |-> "none"]
InitPair ==
    /\ phase = "off"
    /\ running = 1
    /\ other = NoContext
    /\ trace = <<<<>>, <<>>>>
    /\ visited = <<{}, {}>>

Init == InitCommand /\ InitEncode /\ InitQuota /\ InitPair

\* command_function, lines 329-336: the command's checks, reported through the
\* handler error_handler(channel) made.
Check ==
    /\ pc = "check"
    /\ LET c == check_number_of_issues(number_of_issues)
           p == check_pull_request(noun)
           a == check_author(noun)
       IN /\ number_of_issues' = c.value
          /\ pull_request' = IF name = "rq" THEN TRUE ELSE p.value
          /\ author' = IF name = "rq" THEN a.value ELSE "None"
          /\ reports' = reports \o c.sent \o (IF name = "rq" THEN a.sent ELSE p.sent)
    /\ pc' = "search_req"
    /\ UNCHANGED <<sideVars, name, noun, exc, fetchVars, detailVars, net, sleeping,
                   now, reply, histVars>>

(***************************************************************************)
(* The server.  Its answers are inputs: any total_count, any page of at    *)
(* most PageSize items, any rate-limit headers, a timeout, or a status     *)
(* that raise_for_status turns into ClientResponseError.                   *)
(***************************************************************************)
ServerSearchPage ==
    \E m \in net :
        /\ m.dir = "req" /\ m.kind = "search"
        /\ \E total \in 0..MaxTotal, k \in 0..Min(PageSize, MaxItems - served),
              h \in Headers :
              /\ net' = (net \ {m}) \cup
                        {SearchResp(m, total, [i \in 1..k |-> served + i], h)}
              /\ served' = served + k
        /\ UNCHANGED <<sideVars, argVars, pc, exc, fetchVars, detailVars, reports,
                       sleeping, now, reply, detailReqs, detailRl, gaveUp, asked>>

ServerDetail ==
    \E m \in net :
        /\ m.dir = "req" /\ m.kind = "detail"
        /\ \E revs \in ReviewerLists, h \in Headers :
              net' = (net \ {m}) \cup {DetailResp(m, revs, h)}
        /\ UNCHANGED <<sideVars, argVars, pc, exc, fetchVars, detailVars, reports,
                       sleeping, now, reply, histVars>>

ServerTimeout ==
    \E m \in net :
        /\ m.dir = "req"
        /\ net' = (net \ {m}) \cup {Failure(m, "timeout")}
        /\ UNCHANGED <<sideVars, argVars, pc, exc, fetchVars, detailVars, reports,
                       sleeping, now, reply, histVars>>

ServerHttpError ==
    \E m \in net :
        /\ m.dir = "req"
        /\ net' = (net \ {m}) \cup {Failure(m, "http_error")}
        /\ UNCHANGED <<sideVars, argVars, pc, exc, fetchVars, detailVars, reports,
                       sleeping, now, reply, histVars>>

(***************************************************************************)
(* get_issues, driven by the list comprehension of command_function.       *)
(***************************************************************************)
\* page += 1.  Pages beyond MaxPage are one value of the model.
\* (SamePage is the loop without its page += 1.)
SamePage(p) == p
NextPage(p) == Min(p + 1, MaxPage + 1)
\* Line 157: exit if all data has been received.  (ExhaustedAtLeast is the
\* test with >= for ==.)
ExhaustedAtLeast(dc, tc) == dc >= tc
Exhausted(dc, tc) == dc = tc
\* The callback command_function passes to get_issues.
SearchCallback == "handler"
\* get_issues returns or raises: page, data_count and total_count, the locals of
\* its frame, are gone, and with them the pages this call has requested.
EndGetIssues ==
    /\ page' = 1
    /\ data_count' = 0
    /\ total_count' = -1
    /\ asked' = {}

\* Lines 135-140: session.get for the current page.
SearchRequest ==
    /\ pc = "search_req"
    /\ net' = net \cup {Req("search", page)}
    /\ asked' = asked \cup {page}
    /\ pc' = "search_wait"
    /\ UNCHANGED <<sideVars, argVars, exc, fetchVars, detailVars, reports, sleeping,
                   now, reply, served, detailReqs, detailRl, gaveUp>>

\* Lines 141-146: the request timed out.  (SearchTimeoutRetry is the handler
\* with the break left out: the page is requested again.)
SearchTimeoutRetry ==
    /\ pc = "search_wait"
    /\ \E m \in Responses("search") :
          /\ m.status = "timeout"
          /\ net' = net \ {m}
    /\ reports' = reports \o Sent(SearchCallback, "timeout")
    /\ pc' = "search_req"
    /\ UNCHANGED <<sideVars, argVars, exc, fetchVars, detailVars, sleeping, now,
                   reply, histVars>>
SearchTimeout ==
    /\ pc = "search_wait"
    /\ \E m \in Responses("search") :
          /\ m.status = "timeout"
          /\ net' = net \ {m}
    /\ IF Awaitable(SearchCallback)
       THEN /\ reports' = reports \o Sent(SearchCallback, "timeout")
            /\ fetchEnd' = "timeout"
            /\ pc' = "choose"
            /\ exc' = exc
       ELSE /\ fetchEnd' = "error"
            /\ pc' = "crashed"
            /\ exc' = "TypeError"
            /\ reports' = reports
    /\ EndGetIssues
    /\ UNCHANGED <<sideVars, argVars, pending, hdr, issues, detailVars, sleeping, now,
                   reply, served, detailReqs, detailRl, gaveUp>>

\* Line 139: raise_for_status=True raises ClientResponseError, which nothing in
\* get_issues or command_function catches.
SearchHttpError ==
    /\ pc = "search_wait"
    /\ \E m \in Responses("search") :
          /\ m.status = "http_error"
          /\ net' = net \ {m}
    /\ fetchEnd' = "error"
    /\ pc' = "crashed"
    /\ exc' = "ClientResponseError"
    /\ EndGetIssues
    /\ UNCHANGED <<sideVars, argVars, pending, hdr, issues, detailVars, reports,
                   sleeping, now, reply, served, detailReqs, detailRl, gaveUp>>

\* Lines 147-150: a page arrived.
SearchPage ==
    /\ pc = "search_wait"
    /\ \E m \in Responses("search") :
          /\ m.status = "ok"
          /\ net' = net \ {m}
          /\ total_count' = m.total
          /\ data_count' = data_count + Len(m.items)
          /\ pending' = m.items
          /\ hdr' = m.headers
    /\ pc' = "search_yield"
    /\ UNCHANGED <<sideVars, argVars, exc, page, issues, fetchEnd, detailVars,
                   reports, sleeping, now, reply, histVars>>

\* Lines 151-152 and 340-345: one item is yielded and appended to issues.
SearchYield ==
    /\ pc = "search_yield"
    /\ pending # <<>>
    /\ issues' = Append(issues, Head(pending))
    /\ pending' = Tail(pending)
    /\ UNCHANGED <<sideVars, argVars, pc, exc, page, data_count, total_count, hdr,
                   fetchEnd, detailVars, net, reports, sleeping, now, reply,
                   histVars>>

\* Line 153: page += 1, once the page's items are yielded.
SearchAdvance ==
    /\ pc = "search_yield"
    /\ pending = <<>>
    /\ page' = NextPage(page)
    /\ pc' = "search_rl"
    /\ UNCHANGED <<sideVars, argVars, exc, data_count, total_count, pending, hdr,
                   issues, fetchEnd, detailVars, net, reports, sleeping, now, reply,
                   histVars>>

\* Lines 154-158: what get_issues does with the value github_ratelimiter returned.
SearchAfterRateLimit(ret) ==
    IF ret # 0
    THEN /\ fetchEnd' = "giveup"
         /\ pc' = "choose"
         /\ EndGetIssues
    ELSE IF Exhausted(data_count, total_count)
    THEN /\ fetchEnd' = "exhausted"
         /\ pc' = "choose"
         /\ EndGetIssues
    ELSE /\ fetchEnd' = fetchEnd
         /\ pc' = "search_req"
         /\ UNCHANGED <<page, data_count, total_count, asked>>

\* Line 154: the call of github_ratelimiter, up to its return or its sleep.
SearchRateLimit ==
    /\ pc = "search_rl"
    /\ LET r == github_ratelimiter(hdr, SearchCallback, now) IN
          /\ reports' = reports \o r.sent
          /\ IF r.raised
             THEN /\ fetchEnd' = "error"
                  /\ pc' = "crashed"
                  /\ exc' = "TypeError"
                  /\ EndGetIssues
                  /\ UNCHANGED <<sleeping, gaveUp>>
             ELSE IF r.sleep > 0
             THEN /\ sleeping' = r.sleep
                  /\ pc' = "search_sleep"
                  /\ UNCHANGED <<exc, fetchEnd, gaveUp, page, data_count, total_count,
                                 asked>>
             ELSE /\ SearchAfterRateLimit(r.ret)
                  /\ gaveUp' = (gaveUp \/ r.ret # 0)
                  /\ UNCHANGED <<exc, sleeping>>
    /\ hdr' = NoHdr
    /\ UNCHANGED <<sideVars, argVars, pending, issues, detailVars, net, now, reply,
                   served, detailReqs, detailRl>>

\* Lines 78-79: asyncio.sleep is over and github_ratelimiter returns 0.
SearchWake ==
    /\ pc = "search_sleep"
    /\ sleeping' = 0
    /\ SearchAfterRateLimit(0)
    /\ UNCHANGED <<sideVars, argVars, exc, pending, hdr, issues, detailVars, net,
                   reports, now, reply, served, detailReqs, detailRl, gaveUp>>

(***************************************************************************)
(* The selection strategies.                                               *)
(***************************************************************************)
\* issues[:n]
\* (Newest is the slice issues[-n:], the last n items.)
Newest(list, n) == SubSeq(list, Len(list) - Min(n, Len(list)) + 1, Len(list))
Prefix(list, n) == SubSeq(list, 1, Min(n, Len(list)))

\* random.choices(population, k=k): k draws with replacement.  The draws are
\* enumerated by first index and stride, which is every sequence for k <= 2.
\* (RandomSample is the draw without replacement: at most one draw per item.)
RandomSample(population, k) ==
    LET n == Len(population)
        m == Min(k, n)
    IN {[j \in 1..m |-> population[f[j]]] :
           f \in {g \in [1..m -> 1..n] : \A a, b \in 1..m : a # b => g[a] # g[b]}}
RandomChoices(population, k) ==
    LET n == Len(population) IN
    {[j \in 1..k |-> population[((i + s * (j - 1)) % n) + 1]] :
        i \in 0..(n - 1), s \in 0..(n - 1)}

\* Lines 259-271.  random.choices raises IndexError on an empty list.
ChooseRand ==
    /\ pc = "choose"
    /\ name = "rand"
    /\ IF issues = <<>>
       THEN /\ pc' = "crashed"
            /\ exc' = "IndexError"
            /\ chosen_issues' = chosen_issues
       ELSE /\ chosen_issues' \in RandomChoices(issues, number_of_issues)
            /\ pc' = "reply"
            /\ exc' = exc
    /\ UNCHANGED <<sideVars, argVars, fetchVars, idx, counter, details, detailEnd,
                   net, reports, sleeping, now, reply, histVars>>

\* Lines 292-298.
ChooseFeedback ==
    /\ pc = "choose"
    /\ name = "fq"
    /\ chosen_issues' = Prefix(issues, number_of_issues)
    /\ pc' = "reply"
    /\ UNCHANGED <<sideVars, argVars, exc, fetchVars, idx, counter, details,
                   detailEnd, net, reports, sleeping, now, reply, histVars>>

\* Lines 274-284: choose_review; with an author it starts the lazy pipeline
\* pr_with_pending_review(get_pr_details(issues), author).
ChooseReview ==
    /\ pc = "choose"
    /\ name = "rq"
    /\ IF author # "None"
       THEN /\ chosen_issues' = <<>>
            /\ pc' = "detail_next"
       ELSE /\ chosen_issues' = Prefix(issues, number_of_issues)
            /\ pc' = "reply"
    /\ UNCHANGED <<sideVars, argVars, exc, fetchVars, idx, counter, details,
                   detailEnd, net, reports, sleeping, now, reply, histVars>>

(***************************************************************************)
(* get_pr_details and pr_with_pending_review, pulled by choose_review.     *)
(***************************************************************************)
\* The callback choose_review leaves to get_pr_details' default (line 162).
DetailCallback == "lambda"

\* Lines 191-194 with 279-282: pr is yielded once for every entry of its
\* requested_reviewers whose login is user; the consumer appends it and breaks
\* when it holds n items.
\* (CollectNoBreak is the loop of choose_review without its break.)
RECURSIVE CollectNoBreak(_, _, _, _, _)
CollectNoBreak(chosen, pr, revs, user, n) ==
    IF revs = <<>>
    THEN [chosen |-> chosen, stopped |-> FALSE]
    ELSE IF Head(revs) = user
    THEN CollectNoBreak(Append(chosen, pr), pr, Tail(revs), user, n)
    ELSE CollectNoBreak(chosen, pr, Tail(revs), user, n)
\* (CollectAnyLogin is the filter with its login comparison left out: every
\* reviewer entry yields the pull request.)
RECURSIVE CollectAnyLogin(_, _, _, _, _)
CollectAnyLogin(chosen, pr, revs, user, n) ==
    IF revs = <<>>
    THEN [chosen |-> chosen, stopped |-> FALSE]
    ELSE LET c == Append(chosen, pr) IN
         IF Len(c) = n
         THEN [chosen |-> c, stopped |-> TRUE]
         ELSE CollectAnyLogin(c, pr, Tail(revs), user, n)
RECURSIVE Collect(_, _, _, _, _)
Collect(chosen, pr, revs, user, n) ==
    IF revs = <<>>
    THEN [chosen |-> chosen, stopped |-> FALSE]
    ELSE IF Head(revs) = user
    THEN LET c == Append(chosen, pr) IN
         IF Len(c) = n
         THEN [chosen |-> c, stopped |-> TRUE]
         ELSE Collect(c, pr, Tail(revs), user, n)
    ELSE Collect(chosen, pr, Tail(revs), user, n)

\* Line 165: the issue the for loop takes after i others.  (NextIssueReversed
\* walks the list from its end.)
NextIssueReversed(list, i) == list[Len(list) - i]
NextIssue(list, i) == list[i + 1]

\* Lines 165-170: the for loop takes the next issue and requests its detail,
\* or ends, which ends the filter and the loop of choose_review.
DetailNext ==
    /\ pc = "detail_next"
    /\ IF idx < Len(issues)
       THEN /\ idx' = idx + 1
            /\ net' = net \cup {Req("detail", NextIssue(issues, idx))}
            /\ detailReqs' = Append(detailReqs, NextIssue(issues, idx))
            /\ pc' = "detail_wait"
            /\ detailEnd' = detailEnd
       ELSE /\ detailEnd' = "exhausted"
            /\ pc' = "reply"
            /\ UNCHANGED <<idx, net, detailReqs>>
    /\ UNCHANGED <<sideVars, argVars, exc, fetchVars, counter, details, chosen_issues,
                   reports, sleeping, now, reply, served, detailRl, gaveUp, asked>>

\* Lines 171-176: the request timed out; error_channel is awaited.
DetailTimeout ==
    /\ pc = "detail_wait"
    /\ \E m \in Responses("detail") :
          /\ m.status = "timeout"
          /\ net' = net \ {m}
    /\ IF Awaitable(DetailCallback)
       THEN /\ reports' = reports \o Sent(DetailCallback, "timeout")
            /\ detailEnd' = "timeout"
            /\ pc' = "reply"
            /\ exc' = exc
       ELSE /\ detailEnd' = "error"
            /\ pc' = "crashed"
            /\ exc' = "TypeError"
            /\ reports' = reports
    /\ UNCHANGED <<sideVars, argVars, fetchVars, idx, counter, details, chosen_issues,
                   sleeping, now, reply, histVars>>

\* Line 169: raise_for_status=True.
DetailHttpError ==
    /\ pc = "detail_wait"
    /\ \E m \in Responses("detail") :
          /\ m.status = "http_error"
          /\ net' = net \ {m}
    /\ detailEnd' = "error"
    /\ pc' = "crashed"
    /\ exc' = "ClientResponseError"
    /\ UNCHANGED <<sideVars, argVars, fetchVars, idx, counter, details, chosen_issues,
                   reports, sleeping, now, reply, histVars>>

\* Lines 177-180, 191-194, 279-282: pr_data is yielded, filtered and collected.
DetailPage ==
    /\ pc = "detail_wait"
    /\ \E m \in Responses("detail") :
          /\ m.status = "ok"
          /\ net' = net \ {m}
          /\ counter' = counter + 1
          /\ details' = Append(details, [id |-> m.arg, revs |-> m.revs])
          /\ LET c == Collect(chosen_issues, m.arg, m.revs, author, number_of_issues) IN
                /\ chosen_issues' = c.chosen
                /\ IF c.stopped
                   THEN /\ detailEnd' = "break"
                        /\ pc' = "reply"
                        /\ hdr' = NoHdr
                   ELSE /\ detailEnd' = detailEnd
                        /\ pc' = "detail_rl"
                        /\ hdr' = m.headers
    /\ UNCHANGED <<sideVars, argVars, exc, page, data_count, total_count, pending,
                   issues, fetchEnd, idx, reports, sleeping, now, reply, histVars>>

\* Lines 181-182: what get_pr_details does with the value returned.
DetailAfterRateLimit(ret) ==
    /\ detailRl' = detailRl + 1
    /\ IF ret # 0
       THEN /\ detailEnd' = "giveup"
            /\ pc' = "reply"
       ELSE /\ detailEnd' = detailEnd
            /\ pc' = "detail_next"

\* Line 181: the call of github_ratelimiter, up to its return or its sleep.
DetailRateLimit ==
    /\ pc = "detail_rl"
    /\ LET r == github_ratelimiter(hdr, DetailCallback, now) IN
          /\ reports' = reports \o r.sent
          /\ IF r.raised
             THEN /\ detailEnd' = "error"
                  /\ pc' = "crashed"
                  /\ exc' = "TypeError"
                  /\ UNCHANGED <<sleeping, gaveUp, detailRl>>
             ELSE IF r.sleep > 0
             THEN /\ sleeping' = r.sleep
                  /\ pc' = "detail_sleep"
                  /\ UNCHANGED <<exc, detailEnd, gaveUp, detailRl>>
             ELSE /\ DetailAfterRateLimit(r.ret)
                  /\ gaveUp' = (gaveUp \/ r.ret # 0)
                  /\ UNCHANGED <<exc, sleeping>>
    /\ hdr' = NoHdr
    /\ UNCHANGED <<sideVars, argVars, page, data_count, total_count, pending, issues,
                   fetchEnd, idx, counter, details, chosen_issues, net, now, reply,
                   served, detailReqs, asked>>

\* Lines 78-79: asyncio.sleep is over and github_ratelimiter returns 0.
DetailWake ==
    /\ pc = "detail_sleep"
    /\ sleeping' = 0
    /\ DetailAfterRateLimit(0)
    /\ UNCHANGED <<sideVars, argVars, exc, fetchVars, idx, counter, details,
                   chosen_issues, net, reports, now, reply, served, detailReqs,
                   gaveUp, asked>>

\* Lines 366-370: the Selection goes to the channel; the footer flags a short one.
Reply ==
    /\ pc = "reply"
    /\ reply' = [sent |-> TRUE, items |-> chosen_issues,
                 footer |-> Len(chosen_issues) < number_of_issues]
    /\ pc' = "done"
    /\ UNCHANGED <<sideVars, argVars, exc, fetchVars, detailVars, net, reports,
                   sleeping, now, histVars>>

Next ==
    \/ Check
    \/ ServerSearchPage \/ ServerDetail \/ ServerTimeout \/ ServerHttpError
    \/ SearchRequest \/ SearchTimeout \/ SearchHttpError \/ SearchPage
    \/ SearchYield \/ SearchAdvance \/ SearchRateLimit \/ SearchWake
    \/ ChooseRand \/ ChooseFeedback \/ ChooseReview
    \/ DetailNext \/ DetailTimeout \/ DetailHttpError \/ DetailPage
    \/ DetailRateLimit \/ DetailWake
    \/ Reply

Spec == Init /\ [][Next]_vars

\* The event loop runs the invocation whenever it can run, every request is
\* answered or times out, and every sleep ends.
FairSpec == Spec /\ WF_vars(Next)

(***************************************************************************)
(* The query string of get_issues: one label rendered as a term, and the   *)
(* search endpoint reading it.  Strings are sequences of characters.       *)
(***************************************************************************)
\* The longest label.
MaxLabel == 3
\* The characters of a label: a letter, the space, the double quote, the plus.
Chars == {"a", " ", "\"", "+"}
Labels == UNION {[1..n -> Chars] : n \in 0..MaxLabel}

\* urllib.parse.quote never quotes letters (nor digits and "_.-~").
AlwaysSafe == {"a"}
\* The %XX code of a character.
PercentCode(c) ==
    IF c = "\"" THEN <<"%", "2", "2">>
    ELSE IF c = "+" THEN <<"%", "2", "B">>
    ELSE IF c = " " THEN <<"%", "2", "0">>
    ELSE <<c>>
\* urllib.parse.quote_plus(x, safe): quote(x, safe + ' ') with every space
\* then replaced by a plus.
RECURSIVE quote_plus(_, _)
quote_plus(x, safe) ==
    IF x = <<>> THEN <<>>
    ELSE LET c == Head(x)
             q == IF c = " " THEN <<"+">>
                  ELSE IF c \in AlwaysSafe \cup safe THEN <<c>>
                  ELSE PercentCode(c)
         IN q \o quote_plus(Tail(x), safe)
\* Lines 111-112.
gh_encode(x) == quote_plus(x, {"\""})
\* Lines 116-117: f'-label:"{gh_encode(x)}"' and f'label:"{gh_encode(x)}"'.
excluded_label(x) == <<"-label:", "\"">> \o gh_encode(x) \o <<"\"">>
included_label(x) == <<"label:", "\"">> \o gh_encode(x) \o <<"\"">>

\* The endpoint's reading of the query parameter: plus is a space and %XX is
\* the character it codes.
RECURSIVE unquote_plus(_)
unquote_plus(s) ==
    IF s = <<>> THEN <<>>
    ELSE IF Head(s) = "+" THEN <<" ">> \o unquote_plus(Tail(s))
    ELSE IF Head(s) = "%" /\ Len(s) >= 3
    THEN LET code == SubSeq(s, 1, 3)
             c == IF code = PercentCode("\"") THEN "\""
                  ELSE IF code = PercentCode("+") THEN "+"
                  ELSE " "
         IN <<c>> \o unquote_plus(SubSeq(s, 4, Len(s)))
    ELSE <<Head(s)>> \o unquote_plus(Tail(s))
\* The search syntax: a qualifier, then a quoted value that runs up to the next
\* double quote; what follows that quote is not part of the value.
ReadTerm(text) ==
    LET closing == {j \in 3..Len(text) : text[j] = "\""}
        close == CHOOSE j \in closing : \A k \in closing : j <= k
    IN [qualifier |-> text[1],
        label |-> SubSeq(text, 3, close - 1),
        rest |-> SubSeq(text, close + 1, Len(text))]

InitLabel ==
    /\ label \in Labels
    /\ excluded \in BOOLEAN
    /\ term = <<>>
    /\ read = NoRead

\* Lines 116-117: the label becomes a term of the query.
RenderLabel ==
    /\ term = <<>>
    /\ term' = IF excluded THEN excluded_label(label) ELSE included_label(label)
    /\ UNCHANGED <<cmdVars, label, excluded, read, quota, pairVars>>

\* The endpoint decodes the query parameter and reads the term.
ServerReadsTerm ==
    /\ term # <<>>
    /\ read = NoRead
    /\ read' = ReadTerm(unquote_plus(term))
    /\ UNCHANGED <<cmdVars, label, excluded, term, quota, pairVars>>

EncodeNext == RenderLabel \/ ServerReadsTerm

\* get_issues of one fq invocation renders one label of its configuration.
EncodeInit ==
    /\ InitCommand /\ name = "fq" /\ noun = "None" /\ number_of_issues = 1
    /\ InitLabel
    /\ InitQuota
    /\ InitPair

EncodeSpec == EncodeInit /\ [][EncodeNext]_vars

(***************************************************************************)
(* One invocation against a server that keeps one rate limit: every        *)
(* request it receives takes one from the remaining quota, the quota is    *)
(* back at its limit when the reset time is reached, and the headers of a  *)
(* response tell the remaining quota and the reset time.  The clock        *)
(* advances while the invocation sleeps.                                   *)
(***************************************************************************)
\* The largest quota limit.
MaxLimit == 3
\* The clock does not run beyond MaxClock.
MaxClock == 300
\* The length of a rate-limit window in seconds: a minute, an hour.
Windows == {60, 3600}

\* The quota at time t: restored, with a new window, once the reset is reached.
Refreshed(q, t) ==
    IF t >= q.reset
    THEN [q EXCEPT !.remaining = q.limit, !.reset = t + q.window]
    ELSE q
\* The quota after one more request.
Charged(q, t) ==
    LET r == Refreshed(q, t) IN
    [r EXCEPT !.remaining = IF r.remaining > 0 THEN r.remaining - 1 ELSE 0]
\* X-RateLimit-Remaining and X-RateLimit-Reset of a response.
QuotaHeaders(q) == [remaining |-> q.remaining, reset |-> q.reset]

InitLimited ==
    \E limit \in 2..MaxLimit, window \in Windows, remaining \in 2..MaxLimit :
        /\ remaining <= limit
        /\ quota = [limit |-> limit, window |-> window, remaining |-> remaining,
                    reset |-> now + window]

QuotaServerSearch ==
    \E m \in net :
        /\ m.dir = "req" /\ m.kind = "search"
        /\ Refreshed(quota, now).remaining > 0
        /\ quota' = Charged(quota, now)
        /\ \E total \in 0..MaxTotal, k \in 0..Min(PageSize, MaxItems - served) :
              /\ net' = (net \ {m}) \cup
                        {SearchResp(m, total, [i \in 1..k |-> served + i],
                                    QuotaHeaders(quota'))}
              /\ served' = served + k
        /\ UNCHANGED <<encodeVars, pairVars, argVars, pc, exc, fetchVars, detailVars,
                       reports, sleeping, now, reply, detailReqs, detailRl, gaveUp,
                       asked>>

QuotaServerDetail ==
    \E m \in net :
        /\ m.dir = "req" /\ m.kind = "detail"
        /\ Refreshed(quota, now).remaining > 0
        /\ quota' = Charged(quota, now)
        /\ \E revs \in ReviewerLists :
              net' = (net \ {m}) \cup {DetailResp(m, revs, QuotaHeaders(quota'))}
        /\ UNCHANGED <<encodeVars, pairVars, argVars, pc, exc, fetchVars, detailVars,
                       reports, sleeping, now, reply, histVars>>

\* The request was received and counted, and its answer never arrived.
QuotaServerTimeout ==
    \E m \in net :
        /\ m.dir = "req"
        /\ quota' = Charged(quota, now)
        /\ net' = (net \ {m}) \cup {Failure(m, "timeout")}
        /\ UNCHANGED <<encodeVars, pairVars, argVars, pc, exc, fetchVars, detailVars,
                       reports, sleeping, now, reply, histVars>>

\* The server answers with an error status: 403 when no quota remains, or a
\* failure of its own.
QuotaServerHttpError ==
    \E m \in net :
        /\ m.dir = "req"
        /\ quota' = Charged(quota, now)
        /\ net' = (net \ {m}) \cup {Failure(m, "http_error")}
        /\ UNCHANGED <<encodeVars, pairVars, argVars, pc, exc, fetchVars, detailVars,
                       reports, sleeping, now, reply, histVars>>

\* Lines 78-79 in get_issues: asyncio.sleep returns sleeping seconds later.
QuotaSearchWake ==
    /\ pc = "search_sleep"
    /\ now + sleeping <= MaxClock
    /\ now' = now + sleeping
    /\ sleeping' = 0
    /\ SearchAfterRateLimit(0)
    /\ UNCHANGED <<sideVars, argVars, exc, pending, hdr, issues, detailVars, net,
                   reports, reply, served, detailReqs, detailRl, gaveUp>>

\* Lines 78-79 in get_pr_details: asyncio.sleep returns sleeping seconds later.
QuotaDetailWake ==
    /\ pc = "detail_sleep"
    /\ now + sleeping <= MaxClock
    /\ now' = now + sleeping
    /\ sleeping' = 0
    /\ DetailAfterRateLimit(0)
    /\ UNCHANGED <<sideVars, argVars, exc, fetchVars, idx, counter, details,
                   chosen_issues, net, reports, reply, served, detailReqs, gaveUp,
                   asked>>

QuotaNext ==
    \/ Check
    \/ QuotaServerSearch \/ QuotaServerDetail \/ QuotaServerTimeout
    \/ QuotaServerHttpError
    \/ SearchRequest \/ SearchTimeout \/ SearchHttpError \/ SearchPage
    \/ SearchYield \/ SearchAdvance \/ SearchRateLimit \/ QuotaSearchWake
    \/ ChooseRand \/ ChooseFeedback \/ ChooseReview
    \/ DetailNext \/ DetailTimeout \/ DetailHttpError \/ DetailPage
    \/ DetailRateLimit \/ QuotaDetailWake
    \/ Reply

QuotaInit == InitCommand /\ InitEncode /\ InitLimited /\ InitPair

QuotaSpec == QuotaInit /\ [][QuotaNext]_vars

(***************************************************************************)
(* Two invocations of command_function in one event loop.  Each owns the   *)
(* locals of its coroutines, its ClientSession and the handler             *)
(* error_handler made for it; the module's globals are only read.  Each    *)
(* first runs alone, the answers it gets being recorded; then both run     *)
(* interleaved and every page request is answered as it was answered when  *)
(* its invocation ran alone.                                               *)
(***************************************************************************)
\* What an invocation owns: the frame of the running one.
Saved ==
    [name |-> name, noun |-> noun, number_of_issues |-> number_of_issues,
     pull_request |-> pull_request, author |-> author, pc |-> pc, exc |-> exc,
     page |-> page, data_count |-> data_count, total_count |-> total_count,
     pending |-> pending, hdr |-> hdr, issues |-> issues, fetchEnd |-> fetchEnd,
     idx |-> idx, counter |-> counter, details |-> details,
     chosen_issues |-> chosen_issues, detailEnd |-> detailEnd, net |-> net,
     reports |-> reports, sleeping |-> sleeping, reply |-> reply,
     served |-> served, detailReqs |-> detailReqs, detailRl |-> detailRl,
     gaveUp |-> gaveUp, asked |-> asked]
\* The event loop resumes a coroutine with the frame it was suspended with.
\* (ResumeSharedPage is the resumption if page were a global of the module:
\* the coroutine finds the page the other invocation left.)
ResumeSharedPage(ctx) == [ctx EXCEPT !.page = page]
Resume(ctx) == ctx
\* The frame becomes the running one.
Load(ctx) ==
    /\ name' = ctx.name
    /\ noun' = ctx.noun
    /\ number_of_issues' = ctx.number_of_issues
    /\ pull_request' = ctx.pull_request
    /\ author' = ctx.author
    /\ pc' = ctx.pc
    /\ exc' = ctx.exc
    /\ page' = ctx.page
    /\ data_count' = ctx.data_count
    /\ total_count' = ctx.total_count
    /\ pending' = ctx.pending
    /\ hdr' = ctx.hdr
    /\ issues' = ctx.issues
    /\ fetchEnd' = ctx.fetchEnd
    /\ idx' = ctx.idx
    /\ counter' = ctx.counter
    /\ details' = ctx.details
    /\ chosen_issues' = ctx.chosen_issues
    /\ detailEnd' = ctx.detailEnd
    /\ net' = ctx.net
    /\ reports' = ctx.reports
    /\ sleeping' = ctx.sleeping
    /\ reply' = ctx.reply
    /\ served' = ctx.served
    /\ detailReqs' = ctx.detailReqs
    /\ detailRl' = ctx.detailRl
    /\ gaveUp' = ctx.gaveUp
    /\ asked' = ctx.asked
\* The frame of `fq 1 issue` as command_function starts.
StartContext ==
    [name |-> "fq", noun |-> "issue", number_of_issues |-> 1,
     pull_request |-> FALSE, author |-> "None", pc |-> "check", exc |-> "None",
     page |-> 1, data_count |-> 0, total_count |-> -1, pending |-> <<>>,
     hdr |-> NoHdr, issues |-> <<>>, fetchEnd |-> "none", idx |-> 0,
     counter |-> 0, details |-> <<>>, chosen_issues |-> <<>>,
     detailEnd |-> "none", net |-> {}, reports |-> <<>>, sleeping |-> 0,
     reply |-> NoReply, served |-> 0, detailReqs |-> <<>>, detailRl |-> 0,
     gaveUp |-> FALSE, asked |-> {}]

\* The answers to a page request: a timeout, an error status, or a page of one
\* item out of two with headers that make github_ratelimiter return at once,
\* sleep, or give up.
PairHeaders ==
    {h \in Headers : h.remaining = 2 /\ h.reset = 105}
    \cup {h \in Headers : h.remaining = 1 /\ h.reset \in {105, 161}}
PairAnswers ==
    {[status |-> st, k |-> 0, total |-> 0, headers |-> NoHdr] :
         st \in {"timeout", "http_error"}}
    \cup {[status |-> "ok", k |-> 1, total |-> 2, headers |-> h] : h \in PairHeaders}
Answer(m, a) ==
    IF a.status = "ok"
    THEN SearchResp(m, a.total, [i \in 1..a.k |-> served + i], a.headers)
    ELSE Failure(m, a.status)

PairInit ==
    /\ InitCommand /\ Saved = StartContext
    /\ InitEncode /\ InitQuota
    /\ phase = "alone1"
    /\ running = 1
    /\ other = NoContext
    /\ trace = <<<<>>, <<>>>>
    /\ visited = <<{}, {}>>

\* The state of the invocation running alone is on record.
Recorded == phase = "both" \/ Saved \in visited[running]
Observe ==
    /\ phase \in {"alone1", "alone2"}
    /\ Saved \notin visited[running]
    /\ visited' = [visited EXCEPT ![running] = @ \cup {Saved}]
    /\ UNCHANGED <<cmdVars, encodeVars, quota, phase, running, other, trace>>

\* The search endpoint answers the invocation that runs alone.
PairServerAnswers ==
    /\ phase \in {"alone1", "alone2"}
    /\ Recorded
    /\ \E m \in net, a \in PairAnswers :
          /\ m.dir = "req" /\ m.kind = "search"
          /\ m.arg = Len(trace[running]) + 1
          /\ net' = (net \ {m}) \cup {Answer(m, a)}
          /\ served' = served + a.k
          /\ trace' = [trace EXCEPT ![running] = Append(@, a)]
    /\ UNCHANGED <<encodeVars, quota, phase, running, other, visited, argVars, pc,
                   exc, fetchVars, detailVars, reports, sleeping, now, reply,
                   detailReqs, detailRl, gaveUp, asked>>

\* The search endpoint answers a page request as it answered it before.
PairServerReplays ==
    /\ phase = "both"
    /\ \E m \in net :
          /\ m.dir = "req" /\ m.kind = "search"
          /\ m.arg \in 1..Len(trace[running])
          /\ net' = (net \ {m}) \cup {Answer(m, trace[running][m.arg])}
          /\ served' = served + trace[running][m.arg].k
    /\ UNCHANGED <<encodeVars, quota, pairVars, argVars, pc, exc, fetchVars,
                   detailVars, reports, sleeping, now, reply, detailReqs, detailRl,
                   gaveUp, asked>>

\* The first invocation has ended alone; the second starts alone.
StartSecondAlone ==
    /\ phase = "alone1"
    /\ Recorded
    /\ pc \in {"done", "crashed"}
    /\ phase' = "alone2"
    /\ running' = 2
    /\ Load(StartContext)
    /\ UNCHANGED <<encodeVars, quota, other, trace, visited, now>>

\* Both have ended alone; both start, the first one running.
StartBoth ==
    /\ phase = "alone2"
    /\ Recorded
    /\ pc \in {"done", "crashed"}
    /\ phase' = "both"
    /\ running' = 1
    /\ other' = StartContext
    /\ Load(StartContext)
    /\ UNCHANGED <<encodeVars, quota, trace, visited, now>>

\* The event loop suspends the running invocation and resumes the other.
Switch ==
    /\ phase = "both"
    /\ other' = Saved
    /\ Load(Resume(other))
    /\ running' = 3 - running
    /\ UNCHANGED <<encodeVars, quota, phase, trace, visited, now>>

PairNext ==
    \/ Observe \/ PairServerAnswers \/ PairServerReplays
    \/ StartSecondAlone \/ StartBoth \/ Switch
    \/ (Recorded /\ Check)
    \/ (Recorded /\ SearchRequest)
    \/ (Recorded /\ SearchTimeout)
    \/ (Recorded /\ SearchHttpError)
    \/ (Recorded /\ SearchPage)
    \/ (Recorded /\ SearchYield)
    \/ (Recorded /\ SearchAdvance)
    \/ (Recorded /\ SearchRateLimit)
    \/ (Recorded /\ SearchWake)
    \/ (Recorded /\ ChooseFeedback)
    \/ (Recorded /\ Reply)

PairSpec == PairInit /\ [][PairNext]_vars

(***************************************************************************)
(* Steps the properties speak of.                                          *)
(***************************************************************************)
FetchPCs == {"search_req", "search_wait", "search_yield", "search_rl", "search_sleep"}
DetailPCs == {"detail_next", "detail_wait", "detail_rl", "detail_sleep"}
\* This step puts a request of the kind on the network.
Issues(kind) == \E m \in net' \ net : m.dir = "req" /\ m.kind = kind
\* This step ends get_issues at its exhaustion check.
EndsExhausted == fetchEnd = "none" /\ fetchEnd' = "exhausted"
\* This step is github_ratelimiter being called with hdr.
RateLimiterCalled == pc \in {"search_rl", "detail_rl"} /\ pc' # pc
\* The caller takes its give-up branch in this step.
CallerBreaks ==
    \/ fetchEnd = "none" /\ fetchEnd' = "giveup"
    \/ detailEnd = "none" /\ detailEnd' = "giveup"
\* The caller is suspended in asyncio.sleep.
SleepPCs == {"search_sleep", "detail_sleep"}
\* This step handles a search request that timed out.
SearchTimedOut ==
    /\ pc = "search_wait"
    /\ \E m \in Responses("search") : m.status = "timeout"
    /\ pc' # pc
\* This step handles a detail request that timed out.
DetailTimedOut ==
    /\ pc = "detail_wait"
    /\ \E m \in Responses("detail") : m.status = "timeout"
    /\ pc' # pc
\* This step is github_ratelimiter, called by get_pr_details, deciding to give up.
DetailGivesUp ==
    /\ pc = "detail_rl"
    /\ pc' # pc
    /\ hdr.remaining = 1
    /\ (hdr.reset - now) + 1 > 61
\* How many of the first k enriched items have the author among their reviewers.
Matches(k) ==
    Cardinality({i \in 1..k : \E j \in 1..Len(details[i].revs) :
                                 details[i].revs[j] = author})

C2_FetchTerminates == <>(fetchEnd # "none")

(***************************************************************************)
(* C3: no failure crashes an invocation: whatever the network calls        *)
(* return, the invocation ends by sending its Selection to the channel,    *)
(* and a timeout or give-up that cut it short was reported.                *)
(***************************************************************************)
C3_NoCrash ==
    /\ pc # "crashed"
    /\ pc = "done" =>
          /\ reply.sent
          /\ fetchEnd = "timeout" => \E i \in 1..Len(reports) : reports[i] = "timeout"
          /\ fetchEnd = "giveup" => \E i \in 1..Len(reports) : reports[i] = "giveup"

(***************************************************************************)
(* C4: once github_ratelimiter has returned its give-up value, the         *)
(* invocation issues no further request, neither a search page nor a       *)
(* detail fetch.                                                           *)
(***************************************************************************)
C4_NoRequestAfterGiveUp ==
    [][gaveUp => ~(Issues("search") \/ Issues("detail"))]_vars

(***************************************************************************)
(* C5: a call of github_ratelimiter with one request remaining and a       *)
(* delay above 61 seconds reports once, does not suspend, and returns the  *)
(* give-up value; with a delay of 61 or less it neither gives up nor       *)
(* reports.                                                                *)
(***************************************************************************)
C5_GiveUp ==
    [][RateLimiterCalled /\ hdr.remaining = 1 =>
          IF (hdr.reset - now) + 1 > 61
          THEN /\ reports' = Append(reports, "giveup")
               /\ sleeping' = 0
               /\ CallerBreaks
          ELSE /\ reports' = reports
               /\ ~CallerBreaks]_vars

(***************************************************************************)
(* C6: github_ratelimiter suspends its caller exactly when one request     *)
(* remains and the delay d = (reset - now) + 1 is in (0, 61]: it then      *)
(* sleeps for d and returns the continue value.  With d <= 0, and with     *)
(* any other remaining value, 0 included, it returns the continue value    *)
(* at once, without a suspension and without a report.                     *)
(***************************************************************************)
C6_Suspension ==
    /\ [][RateLimiterCalled =>
             LET d == (hdr.reset - now) + 1 IN
             IF hdr.remaining = 1 /\ d > 0 /\ d <= 61
             THEN /\ pc' \in SleepPCs
                  /\ sleeping' = d
                  /\ reports' = reports
                  /\ ~CallerBreaks
             ELSE /\ pc' \notin SleepPCs
                  /\ sleeping' = 0
                  /\ (hdr.remaining # 1 \/ d <= 0) =>
                        /\ reports' = reports
                        /\ ~CallerBreaks
                        /\ exc' = exc]_vars
    /\ [][(pc \in SleepPCs /\ pc' # pc) =>
             /\ pc' \in {"search_req", "choose", "detail_next"}
             /\ sleeping' = 0
             /\ reports' = reports
             /\ ~CallerBreaks
             /\ exc' = exc]_vars
    /\ [](pc \in SleepPCs <=> sleeping > 0)

\* The caller is suspended for the 6 seconds of reset = now + 5.
C6_Witness == pc \in SleepPCs /\ sleeping = 6

(***************************************************************************)
(* C7: when a page request of get_issues times out, the report callback    *)
(* is called once, no further page is requested, the sequence ends, and    *)
(* the items of the earlier pages stay in the output.                      *)
(***************************************************************************)
C7_TimeoutOneShot ==
    /\ [][SearchTimedOut =>
             /\ reports' = Append(reports, "timeout")
             /\ fetchEnd' = "timeout"
             /\ pc' \notin FetchPCs
             /\ issues' = issues]_vars
    /\ [][fetchEnd = "timeout" =>
             /\ ~Issues("search")
             /\ pc' \notin FetchPCs
             /\ issues' = issues]_vars
    /\ [](fetchEnd = "timeout" => issues = [i \in 1..served |-> i])

\* A timeout after a page was received, and the invocation has replied.
C7_Witness == fetchEnd = "timeout" /\ Len(issues) > 0 /\ pc = "done"

(***************************************************************************)
(* C8: in the rq pipeline a detail request that times out, or a give-up    *)
(* of github_ratelimiter during enrichment, is reported through the        *)
(* invocation's callback, ends the detail requests, and the matches        *)
(* collected so far are returned as the Selection.                         *)
(***************************************************************************)
C8_DetailFailure ==
    [][/\ DetailTimedOut =>
             /\ reports' = Append(reports, "timeout")
             /\ pc' = "reply"
             /\ chosen_issues' = chosen_issues
       /\ DetailGivesUp =>
             /\ reports' = Append(reports, "giveup")
             /\ pc' = "reply"
             /\ chosen_issues' = chosen_issues
       /\ detailEnd \in {"timeout", "giveup"} => ~Issues("detail")]_vars

(***************************************************************************)
(* C9: with an author and a count N in [1,10], choose_review issues no     *)
(* detail request once N matching items are collected: every detail        *)
(* request is for an item at or before the N-th item whose                 *)
(* requested_reviewers holds the author.                                   *)
(***************************************************************************)
C9_BoundedEarlyExit ==
    (name = "rq" /\ author # "None") =>
        /\ \A r \in 1..Len(detailReqs) :
              /\ r - 1 <= Len(details)
              /\ Matches(r - 1) < number_of_issues
        /\ Len(chosen_issues) <= number_of_issues
        /\ Len(chosen_issues) = number_of_issues => pc \in {"reply", "done"} /\ net = {}

\* The requested matches were collected and an item of the input was never
\* requested.
C9_Witness ==
    /\ pc = "done"
    /\ detailEnd = "break"
    /\ Matches(Len(details)) = number_of_issues
    /\ Len(chosen_issues) = number_of_issues
    /\ Len(detailReqs) < Len(issues)

(***************************************************************************)
(* C10: get_pr_details issues one detail request per input item it takes,  *)
(* in input order; the k-th item it yields is the detail of the k-th       *)
(* input item; the next request is issued only after the previous          *)
(* response was yielded and github_ratelimiter has returned for it; at     *)
(* most one request of the invocation is outstanding.                      *)
(***************************************************************************)
C10_Sequential ==
    /\ Cardinality(net) <= 1
    /\ Len(detailReqs) = idx
    /\ \A k \in 1..idx : detailReqs[k] = issues[k]
    /\ Len(details) = counter
    /\ \A k \in 1..counter : details[k].id = issues[k]
    /\ counter <= idx /\ idx <= counter + 1
    /\ detailRl <= counter
    /\ pc = "detail_wait" => net # {} /\ counter = idx - 1 /\ detailRl = idx - 1

\* A detail was yielded, github_ratelimiter returned for it, and the request
\* for the next item is outstanding.
C10_Witness == pc = "detail_wait" /\ Len(details) >= 1 /\ detailRl >= 1

(***************************************************************************)
(* C11: every item pr_with_pending_review yields has a requested_reviewers *)
(* entry whose login is the identity, an item without such an entry is     *)
(* never yielded, and the items yielded keep the relative order they have  *)
(* in the input.                                                           *)
(***************************************************************************)
C11_FilterSound ==
    (name = "rq" /\ author # "None") =>
        /\ \A i \in 1..Len(chosen_issues) :
              \E k \in 1..Len(details) :
                 /\ details[k].id = chosen_issues[i]
                 /\ \E j \in 1..Len(details[k].revs) : details[k].revs[j] = author
        /\ \A i, j \in 1..Len(chosen_issues) :
              i < j =>
                 \E k, l \in 1..Len(issues) :
                    /\ k <= l
                    /\ issues[k] = chosen_issues[i]
                    /\ issues[l] = chosen_issues[j]

\* The filter let an item through after it had held one back.
C11_Witness ==
    /\ pc = "done"
    /\ Len(details) >= 2
    /\ \A j \in 1..Len(details[1].revs) : details[1].revs[j] # author
    /\ chosen_issues # <<>>
    /\ chosen_issues[1] = details[2].id

(***************************************************************************)
(* C12: for each of the three strategies, when fewer than N items are      *)
(* available to it (none included) the Selection is exactly the available  *)
(* items and the reply carries the footer; the footer is never set when N  *)
(* items were available.  The items available to choose_rand,              *)
(* choose_feedback and choose_review without an author are the             *)
(* materialized list; with an author they are the enriched items that      *)
(* hold the author, once every input item was enriched.                    *)
(***************************************************************************)
C12_ShortFlagged ==
    LET HoldsAuthor(d) == \E j \in 1..Len(d.revs) : d.revs[j] = author
        matching == SelectSeq(details, HoldsAuthor)
        available == IF name = "rq" /\ author # "None"
                     THEN [i \in 1..Len(matching) |-> matching[i].id]
                     ELSE issues
        settled == name = "rq" /\ author # "None" => detailEnd = "exhausted"
    IN /\ (pc = "crashed" => exc # "IndexError")
       /\ (pc = "done" /\ settled) =>
             /\ Len(available) < number_of_issues =>
                   reply.items = available /\ reply.footer
             /\ Len(available) >= number_of_issues => ~reply.footer

C14_OldestPrefix ==
    /\ [][LET oldest == name = "fq" \/ (name = "rq" /\ author = "None")
              m == IF number_of_issues < Len(issues)
                   THEN number_of_issues ELSE Len(issues)
          IN (pc = "choose" /\ oldest /\ pc' # pc) =>
                /\ chosen_issues' = [i \in 1..m |-> issues[i]]
                /\ pc' = "reply"
                /\ net' = net]_vars
    /\ [](LET oldest == name = "fq" \/ (name = "rq" /\ author = "None")
              m == IF number_of_issues < Len(issues)
                   THEN number_of_issues ELSE Len(issues)
              first == [i \in 1..m |-> issues[i]]
          IN /\ (oldest /\ pc \in {"reply", "done"}) =>
                   /\ number_of_issues \in 1..10
                   /\ chosen_issues = first
                   /\ net = {}
                   /\ detailReqs = <<>>
             /\ (oldest /\ pc = "done") =>
                   /\ reply.items = first
                   /\ reply.footer <=> Len(issues) < number_of_issues)

\* choose_review without an author returned a list shorter than its N, flagged.
C14_Witness ==
    /\ name = "rq"
    /\ author = "None"
    /\ pc = "done"
    /\ Len(issues) = MaxItems
    /\ reply.items = issues
    /\ reply.footer

(***************************************************************************)
(* C15: check_number_of_issues returns a value in [1,10] for every         *)
(* requested count: a count in [1,10] comes back unchanged with no report, *)
(* a count outside [1,10] comes back as the default, 10, with exactly one  *)
(* report; and the invocation goes on to fetch and select with the         *)
(* corrected count.                                                        *)
(***************************************************************************)
C15_CountCorrected ==
    /\ [][pc = "check" =>
             LET about_count == {"unnatural", "curb"}
                 told == SelectSeq(reports', LAMBDA r : r \in about_count)
             IN /\ number_of_issues' \in 1..10
                /\ number_of_issues \in 1..10 =>
                      number_of_issues' = number_of_issues /\ told = <<>>
                /\ number_of_issues \notin 1..10 =>
                      number_of_issues' = 10 /\ Len(told) = 1
                /\ pc' = "search_req"]_vars
    /\ [][pc # "check" => number_of_issues' = number_of_issues]_vars
    /\ [](pc # "check" => number_of_issues \in 1..10)
    /\ [](pc = "done" => reply.footer = (Len(reply.items) < number_of_issues))

\* A count above 10 was corrected and the invocation selected 10 items with it.
C15_Witness ==
    /\ noun = "issue"
    /\ name = "rand"
    /\ reports = <<"curb">>
    /\ pc = "done"
    /\ number_of_issues = 10
    /\ Len(reply.items) = 10

(***************************************************************************)
(* C20: pr_with_pending_review yields each input item at most once, also   *)
(* an item whose requested_reviewers holds the identity more than once:    *)
(* its output is a subsequence of its input, so choose_review never        *)
(* collects more items than there are distinct enriched items that match.  *)
(***************************************************************************)
C20_YieldedOnce ==
    (name = "rq" /\ author # "None") =>
        /\ \A i, j \in 1..Len(chosen_issues) :
              i # j => chosen_issues[i] # chosen_issues[j]
        /\ Len(chosen_issues) <= Matches(Len(details))

(***************************************************************************)
(* C18: get_issues requests the pages 1, 2, 3, ... in order and each page  *)
(* at most once; after a page is received all its items are yielded, then  *)
(* github_ratelimiter is called once with the headers of that response     *)
(* (also after the last page, before the exhaustion check), and only then  *)
(* is the next page requested; so at a give-up after page k every item of  *)
(* the pages 1..k has been yielded.  Pages above MaxPage are one page of   *)
(* the model, and 'at most once' is stated of the pages up to MaxPage.     *)
(***************************************************************************)
C18_PerPageOrder ==
    /\ [][Issues("search") =>
             /\ pc = "search_req"
             /\ Req("search", page) \in net'
             /\ asked \ {MaxPage + 1} = 1..(page - 1)
             /\ page <= MaxPage => page \notin asked
             /\ pending = <<>>
             /\ hdr = NoHdr]_vars
    /\ [][(pc = "search_wait" /\ pc' = "search_yield") =>
             \E m \in Responses("search") :
                /\ m.status = "ok"
                /\ pending' = m.items
                /\ hdr' = m.headers]_vars
    /\ [][pc = "search_yield" =>
             /\ hdr' = hdr
             /\ pc' = "search_rl" =>
                   /\ pending = <<>>
                   /\ page <= MaxPage => page' = page + 1]_vars
    /\ [][(pc = "search_rl" /\ pc' # pc) =>
             /\ hdr \in Headers
             /\ hdr' = NoHdr
             /\ issues = [i \in 1..served |-> i]
             /\ pc' \in {"search_sleep", "search_req", "choose"}]_vars
    /\ [][(pc' = "search_req" /\ pc # "search_req") =>
             pc \in {"check", "search_rl", "search_sleep"}]_vars
    /\ [][(fetchEnd = "none" /\ fetchEnd' \in {"exhausted", "giveup"}) =>
             pc \in {"search_rl", "search_sleep"}]_vars
    /\ [](fetchEnd = "giveup" => issues = [i \in 1..served |-> i])

\* github_ratelimiter is called for the second page, whose item and the first
\* page's have been yielded.
C18_Witness ==
    /\ pc = "search_rl"
    /\ asked = {1, 2}
    /\ Len(issues) = 2
    /\ hdr.remaining = 1
    /\ (hdr.reset - now) + 1 > 61

(***************************************************************************)
(* C17: the term get_issues renders for an included or excluded label      *)
(* over letters, spaces and double quotes (and the plus) is read back by   *)
(* the endpoint as that one label: no character of the label ends the      *)
(* quoted value or starts another term.                                    *)
(***************************************************************************)
C17_RoundTrip ==
    read # NoRead =>
        /\ read.qualifier = (IF excluded THEN "-label:" ELSE "label:")
        /\ read.label = label
        /\ read.rest = <<>>

(***************************************************************************)
(* C19: an invocation running alone against a server whose quota limit is  *)
(* at least 2 and whose remaining quota is at least 2 at the start never   *)
(* issues a request, search page or detail fetch, while the remaining      *)
(* quota is 0.                                                             *)
(***************************************************************************)
C19_QuotaNotOverrun ==
    [][(Issues("search") \/ Issues("detail")) =>
          Refreshed(quota, now).remaining > 0]_vars

(***************************************************************************)
(* C16: when two invocations run interleaved, each goes only through       *)
(* states it went through when it ran alone with the same answers: its     *)
(* page counter, data_count, yielded items, reports and end are those of   *)
(* the run alone; and a timeout or a give-up in the running invocation     *)
(* leaves the suspended one as it was.                                     *)
(***************************************************************************)
C16_Isolation ==
    /\ [](phase = "both" =>
             /\ Saved \in visited[running]
             /\ other \in visited[3 - running])
    /\ [][(phase = "both" /\ fetchEnd = "none"
           /\ fetchEnd' \in {"timeout", "giveup"} /\ running' = running) =>
             other' = other]_vars

\* One invocation was ended by a timeout on its first page while the other,
\* interleaved with it, fetched both pages and replied.
C16_Witness ==
    /\ phase = "both"
    /\ pc = "done"
    /\ fetchEnd = "timeout"
    /\ issues = <<>>
    /\ other.pc = "done"
    /\ other.fetchEnd = "exhausted"
    /\ Len(other.issues) = 2
    /\ other.asked = {}

====
